---- MODULE Spec2Model ----
(***************************************************************************)
(* dsv-scripts: directory resolution (utils.get_dir_path,                  *)
(* utils.get_input_and_output_dir_paths), scoped file discovery            *)
(* (utils.get_relevant_file_paths), the per-command argument binder        *)
(* (fileio.FileIOParser.parse_args) and the commands' processing loops.    *)
(*                                                                         *)
(* Strings are sequences of code points (46 is ".", 42 is "*", 47 is "/"). *)
(* A raw path is the raw string split at "/": "/w/" is <<"", "w", "">>.    *)
(* An absolute path is the sequence of its components below the root.      *)
(***************************************************************************)
EXTENDS Integers, Sequences, FiniteSets, TLC

VARIABLES fs, cwd, data, last, run, disp

vars == <<fs, cwd, data, last, run, disp>>

(***************************************************************************)
(* Bounds                                                                  *)
(***************************************************************************)
\* the longest list of raw path arguments given to get_relevant_file_paths
MaxRaw == 2

\* the longest command line given to the dispatcher
MaxArgs == 3

(***************************************************************************)
(* Strings                                                                 *)
(***************************************************************************)
\* str.lower() on one code point (ASCII)
LowerChar(c) == IF c >= 65 /\ c <= 90 THEN c + 32 ELSE c

\* str.lower()
Lower(s) == [i \in 1..Len(s) |-> LowerChar(s[i])]

\* s < t for str: code point by code point, a proper prefix is smaller
RECURSIVE StrLess(_, _)
StrLess(s, t) ==
    IF t = <<>> THEN FALSE
    ELSE IF s = <<>> THEN TRUE
    ELSE IF Head(s) # Head(t) THEN Head(s) < Head(t)
    ELSE StrLess(Tail(s), Tail(t))

\* str.rfind("."): the last index of a dot, 0 when there is none (1-based)
RFindDot(s) ==
    LET idx == {i \in 1..Len(s) : s[i] = 46}
    IN IF idx = {} THEN 0 ELSE CHOOSE i \in idx : \A j \in idx : j <= i

\* PurePath.suffix: the name from its last dot on, unless that dot is the
\* first or the last character
Suffix(name) ==
    LET i == RFindDot(name)
    IN IF i > 1 /\ i < Len(name) THEN SubSeq(name, i, Len(name)) ELSE <<>>

\* fnmatch of a whole name against a pattern of literals and "*" (case
\* sensitive, as on POSIX)
RECURSIVE GlobMatch(_, _)
GlobMatch(pat, s) ==
    IF pat = <<>> THEN s = <<>>
    ELSE IF Head(pat) = 42
         THEN GlobMatch(Tail(pat), s) \/ (s # <<>> /\ GlobMatch(pat, Tail(s)))
         ELSE s # <<>> /\ Head(s) = Head(pat) /\ GlobMatch(Tail(pat), Tail(s))

(***************************************************************************)
(* Paths and the file system                                               *)
(***************************************************************************)
Root == <<>>

DotSeg == <<46>>

DotDotSeg == <<46, 46>>

\* PurePath.parent (the root is its own parent)
Parent(p) == IF p = <<>> THEN <<>> ELSE SubSeq(p, 1, Len(p) - 1)

\* PurePath.is_relative_to: other is a (not necessarily proper) prefix
IsRelativeTo(p, other) ==
    Len(other) <= Len(p) /\ SubSeq(p, 1, Len(other)) = other

\* PurePath.relative_to, where IsRelativeTo holds; <<>> is Path(".")
RelativeTo(p, other) == SubSeq(p, Len(other) + 1, Len(p))

\* p < q for paths: component by component
RECURSIVE PathLess(_, _)
PathLess(p, q) ==
    IF q = <<>> THEN FALSE
    ELSE IF p = <<>> THEN TRUE
    ELSE IF Head(p) # Head(q) THEN StrLess(Head(p), Head(q))
    ELSE PathLess(Tail(p), Tail(q))

\* every prefix of p, itself included, the root excluded
Prefixes(p) == {SubSeq(p, 1, n) : n \in 1..Len(p)}

IsFile(f, p) == p \in f.files

IsDir(f, p) == p \in f.dirs

IsLink(f, p) == p \in DOMAIN f.links

\* os.lstat succeeds
LExists(f, p) == IsFile(f, p) \/ IsDir(f, p) \/ IsLink(f, p)

\* Path(raw).resolve(strict): "" and "." components are dropped, ".." pops
\* the path resolved so far, a symbolic link is replaced by its target.
\* Not strict, a missing component is kept as written; strict, it raises.
RECURSIVE ResolveFrom(_, _, _, _)
ResolveFrom(f, cur, segs, strict) ==
    IF segs = <<>> THEN [err |-> "none", path |-> cur]
    ELSE LET s == Head(segs)
             np == Append(cur, s)
         IN IF s = <<>> \/ s = DotSeg
            THEN ResolveFrom(f, cur, Tail(segs), strict)
            ELSE IF s = DotDotSeg
            THEN ResolveFrom(f, Parent(cur), Tail(segs), strict)
            ELSE IF IsLink(f, np)
            THEN ResolveFrom(f, f.links[np], Tail(segs), strict)
            ELSE IF strict /\ ~LExists(f, np)
            THEN [err |-> IF IsFile(f, cur) THEN "NotADirectoryError"
                          ELSE "FileNotFoundError",
                  path |-> np]
            ELSE ResolveFrom(f, np, Tail(segs), strict)

\* a raw string that starts with "/" splits into a first empty component
IsAbsRaw(raw) == Len(raw) >= 2 /\ raw[1] = <<>>

Resolve(f, wd, raw, strict) ==
    ResolveFrom(f, IF IsAbsRaw(raw) THEN Root ELSE wd, raw, strict)

\* Path.mkdir(parents=True, exist_ok=True): raises when a component of the
\* path is a regular file, otherwise every missing component is created
MkdirFails(f, p) == \E q \in Prefixes(p) : IsFile(f, q)

Mkdir(f, p) == [f EXCEPT !.dirs = @ \cup Prefixes(p)]

(***************************************************************************)
(* utils.get_dir_path                                                      *)
(*                                                                         *)
(* Each function yields a record: how the call ends (outcome: "return",    *)
(* "exit1" for SystemExit(1), or the name of the exception that escapes),  *)
(* what it returns, and the file system it leaves (fs).                    *)
(***************************************************************************)
\* lines 38-44: the path is returned when it is a directory, otherwise
\* SystemExit(1)
DirPathResult(g, dir_path) ==
    IF IsDir(g, dir_path)
    THEN [outcome |-> "return", path |-> dir_path, fs |-> g]
    ELSE [outcome |-> "exit1", path |-> dir_path, fs |-> g]

\* lines 30-36: SystemExit(1) on a regular file, else mkdir when asked to
DirPathChecked(f, dir_path, create_if_missing) ==
    IF IsFile(f, dir_path)
    THEN [outcome |-> "exit1", path |-> dir_path, fs |-> f]
    ELSE IF ~create_if_missing THEN DirPathResult(f, dir_path)
    ELSE IF MkdirFails(f, dir_path)
    THEN [outcome |-> "NotADirectoryError", path |-> dir_path, fs |-> f]
    ELSE DirPathResult(Mkdir(f, dir_path), dir_path)

get_dir_path(f, wd, raw_path, create_if_missing) ==
    DirPathChecked(f, Resolve(f, wd, raw_path, FALSE).path, create_if_missing)

(***************************************************************************)
(* utils.get_input_and_output_dir_paths                                    *)
(***************************************************************************)
\* the same-directory check with a bug: "and force" for "and (not force)"
SameDirCheck_ForceInverted(a, b, force) ==
    IF b.outcome # "return"
    THEN [outcome |-> b.outcome, input_dir |-> a.path, output_dir |-> b.path,
          fs |-> b.fs]
    ELSE IF a.path = b.path /\ force
    THEN [outcome |-> "exit1", input_dir |-> a.path, output_dir |-> b.path,
          fs |-> b.fs]
    ELSE [outcome |-> "return", input_dir |-> a.path, output_dir |-> b.path,
          fs |-> b.fs]

\* lines 89-103, a and b being the two get_dir_path results: the same
\* resolved path without force is SystemExit(1)
SameDirCheck(a, b, force) ==
    IF b.outcome # "return"
    THEN [outcome |-> b.outcome, input_dir |-> a.path, output_dir |-> b.path,
          fs |-> b.fs]
    ELSE IF a.path = b.path /\ ~force
    THEN [outcome |-> "exit1", input_dir |-> a.path, output_dir |-> b.path,
          fs |-> b.fs]
    ELSE [outcome |-> "return", input_dir |-> a.path, output_dir |-> b.path,
          fs |-> b.fs]

\* line 87, a being the result for the input directory: the output
\* directory is resolved in the file system the first call left
OutputDirStep(a, wd, output_path, force) ==
    IF a.outcome # "return"
    THEN [outcome |-> a.outcome, input_dir |-> a.path, output_dir |-> Root,
          fs |-> a.fs]
    ELSE SameDirCheck(a, get_dir_path(a.fs, wd, output_path, force), force)

\* force is create_if_missing of both get_dir_path calls, input first
get_input_and_output_dir_paths(f, wd, input_path, output_path, force) ==
    OutputDirStep(get_dir_path(f, wd, input_path, force), wd, output_path,
                  force)

(***************************************************************************)
(* utils.get_relevant_file_paths                                           *)
(***************************************************************************)
\* all_exts, the tuple (".*",)
all_exts == << <<46, 42>> >>

\* the allowed_exts tuple after line 170: "." + ext, lowercased, or all_exts
\* when no extension was given
NormalizeExts(exts) ==
    IF exts = <<>> THEN all_exts
    ELSE [i \in 1..Len(exts) |-> Lower(<<46>> \o exts[i])]

\* the default with a bug: an empty list stays empty
DefaultRawPaths_Empty(raw_paths) == raw_paths

\* raw_paths or ["."]
DefaultRawPaths(raw_paths) ==
    IF raw_paths = <<>> THEN << <<DotSeg>> >> ELSE raw_paths

\* what a directory scan can yield: files, directories and symbolic links
Entries(f) == f.files \cup (f.dirs \ {Root}) \cup DOMAIN f.links

\* path.rglob(pattern): every entry below path (symbolic links to
\* directories are not followed) whose name matches the pattern
rglob(f, path, pattern) ==
    {e \in Entries(f) : /\ Len(e) > Len(path)
                        /\ IsRelativeTo(e, path)
                        /\ GlobMatch(pattern, e[Len(e)])}

InSeq(s, x) == \E i \in 1..Len(s) : s[i] = x

\* set.add with a bug: a list is appended to
SetAdd_List(acc, p) == Append(acc, p)

\* set.add, the set kept as a duplicate-free sequence
SetAdd(acc, p) == IF InSeq(acc, p) THEN acc ELSE Append(acc, p)

\* the least path of a non-empty set
MinPath(ps) == CHOOSE x \in ps : \A y \in ps : x = y \/ PathLess(x, y)

\* set.update
RECURSIVE SetUpdate(_, _)
SetUpdate(acc, ps) ==
    IF ps = {} THEN acc
    ELSE SetUpdate(SetAdd(acc, MinPath(ps)), ps \ {MinPath(ps)})

\* for ext in allowed_exts: file_paths.update(path.rglob(f"*{ext}"))
RECURSIVE ScanDir(_, _, _, _)
ScanDir(f, path, allowed, acc) ==
    IF allowed = <<>> THEN acc
    ELSE ScanDir(f, path, Tail(allowed),
                 SetUpdate(acc, rglob(f, path, <<42>> \o Head(allowed))))

\* lines 175-183 for one resolved raw path: a directory is scanned, a file is
\* added when every extension is allowed or its lowercased suffix is one
\* of them, and skipped otherwise
AddPath(f, path, allowed, acc) ==
    IF IsDir(f, path) THEN ScanDir(f, path, allowed, acc)
    ELSE IF allowed = all_exts \/ InSeq(allowed, Lower(Suffix(path[Len(path)])))
    THEN SetAdd(acc, path)
    ELSE acc

\* the loop of lines 173-183; resolve(strict=True) raises at the first raw
\* path that does not exist
RECURSIVE CollectPaths(_, _, _, _, _)
CollectPaths(f, wd, raws, allowed, acc) ==
    IF raws = <<>> THEN [err |-> "none", acc |-> acc]
    ELSE IF Resolve(f, wd, Head(raws), TRUE).err # "none"
    THEN [err |-> Resolve(f, wd, Head(raws), TRUE).err, acc |-> acc]
    ELSE CollectPaths(f, wd, Tail(raws), allowed,
                      AddPath(f, Resolve(f, wd, Head(raws), TRUE).path,
                              allowed, acc))

\* insert p into the ascending sequence s, after every element not above it
RECURSIVE InsertSorted(_, _)
InsertSorted(s, p) ==
    IF s = <<>> THEN <<p>>
    ELSE IF PathLess(p, Head(s)) THEN <<p>> \o s
    ELSE <<Head(s)>> \o InsertSorted(Tail(s), p)

\* sorted(file_paths) with a bug: the paths stay in the order found
SortPaths_Unsorted(s) == s

\* sorted(file_paths)
RECURSIVE SortPaths(_)
SortPaths(s) ==
    IF s = <<>> THEN <<>>
    ELSE InsertSorted(SortPaths(SubSeq(s, 1, Len(s) - 1)), s[Len(s)])

\* the list comprehension of lines 185-189
RECURSIVE RelativeList(_, _)
RelativeList(s, parent) ==
    IF s = <<>> THEN <<>>
    ELSE IF IsRelativeTo(Head(s), parent)
    THEN <<RelativeTo(Head(s), parent)>> \o RelativeList(Tail(s), parent)
    ELSE RelativeList(Tail(s), parent)

\* the parent_dir argument: None, or an absolute path
NoneDir == [none |-> TRUE, path |-> Root]

Dir(p) == [none |-> FALSE, path |-> p]

\* (parent_dir or cwd).resolve(strict=True)
ResolveParent(f, wd, parent_dir) ==
    IF parent_dir.none THEN [err |-> "none", path |-> wd]
    ELSE Resolve(f, wd, <<<<>>>> \o parent_dir.path, TRUE)

\* lines 185-189, c being what the loop collected
RelevantResult(c, parent) ==
    IF c.err # "none" THEN [outcome |-> c.err, paths |-> <<>>]
    ELSE [outcome |-> "return",
          paths |-> RelativeList(SortPaths(c.acc), parent)]

\* lines 167-189, p being the resolved scope
RelevantIn(f, wd, raw_paths, allowed, p) ==
    IF p.err # "none" THEN [outcome |-> p.err, paths |-> <<>>]
    ELSE RelevantResult(
             CollectPaths(f, wd, DefaultRawPaths(raw_paths), allowed, <<>>),
             p.path)

\* the result is the list of paths relative to the scope
get_relevant_file_paths(f, wd, raw_paths, allowed_exts, parent_dir) ==
    RelevantIn(f, wd, raw_paths, NormalizeExts(allowed_exts),
               ResolveParent(f, wd, parent_dir))

(***************************************************************************)
(* fileio.FileIOParser.parse_args                                          *)
(***************************************************************************)
\* the exception of Path.mkdir(parents=True, exist_ok=True) on p
MkdirError(f, p) ==
    IF IsFile(f, p) THEN "FileExistsError" ELSE "NotADirectoryError"

\* the loop with a bug: the parent of the output file is not created
RECURSIVE MakePairs_NoMkdir(_, _, _, _, _)
MakePairs_NoMkdir(f, input_dir, output_dir, file_paths, files) ==
    IF file_paths = <<>> THEN [outcome |-> "return", files |-> files, fs |-> f]
    ELSE MakePairs_NoMkdir(f, input_dir, output_dir, Tail(file_paths),
                           Append(files, <<input_dir \o Head(file_paths),
                                           output_dir \o Head(file_paths)>>))

\* the loop of lines 126-129: the parent of each output file is created and
\* the pair (input_dir / file_path, output_dir / file_path) is appended
RECURSIVE MakePairs(_, _, _, _, _)
MakePairs(f, input_dir, output_dir, file_paths, files) ==
    IF file_paths = <<>> THEN [outcome |-> "return", files |-> files, fs |-> f]
    ELSE IF MkdirFails(f, Parent(output_dir \o Head(file_paths)))
    THEN [outcome |-> MkdirError(f, Parent(output_dir \o Head(file_paths))),
          files |-> files, fs |-> f]
    ELSE MakePairs(Mkdir(f, Parent(output_dir \o Head(file_paths))),
                   input_dir, output_dir, Tail(file_paths),
                   Append(files, <<input_dir \o Head(file_paths),
                                   output_dir \o Head(file_paths)>>))

\* getattr(args, "force", True): the parsed flag, True when the parser has
\* no force option
ForceOf(add_force_option, argv) ==
    IF add_force_option THEN argv.force ELSE TRUE

\* lines 126-136, io being the directory pair and d the discovery result
BindFiles(io, d) ==
    IF d.outcome # "return"
    THEN [outcome |-> d.outcome, files |-> <<>>, fs |-> io.fs,
          input_dir |-> io.input_dir, output_dir |-> io.output_dir]
    ELSE [input_dir |-> io.input_dir, output_dir |-> io.output_dir]
         @@ MakePairs(io.fs, io.input_dir, io.output_dir, d.paths, <<>>)

\* lines 122-136, io being the result of get_input_and_output_dir_paths
BindPaths(io, wd, file_exts, argv) ==
    IF io.outcome # "return"
    THEN [outcome |-> io.outcome, files |-> <<>>, fs |-> io.fs,
          input_dir |-> io.input_dir, output_dir |-> io.output_dir]
    ELSE BindFiles(io, get_relevant_file_paths(io.fs, wd, argv.paths,
                                               file_exts, Dir(io.input_dir)))

\* argv is the parsed command line: input and output are the values of -i
\* and -o ("" when absent), force says whether -f was given, paths are the
\* positional arguments. A -f the parser does not know is argparse's
\* SystemExit(2).
parse_args(f, wd, add_force_option, file_exts, argv) ==
    IF argv.force /\ ~add_force_option
    THEN [outcome |-> "exit2", files |-> <<>>, fs |-> f,
          input_dir |-> Root, output_dir |-> Root]
    ELSE BindPaths(get_input_and_output_dir_paths(
                       f, wd, argv.input, argv.output,
                       ForceOf(add_force_option, argv)),
                   wd, file_exts, argv)

(***************************************************************************)
(* The directory trees and the arguments that are tried                    *)
(***************************************************************************)
N_w == <<119>>                              \* "w"
N_o == <<111>>                              \* "o"
N_a_json == <<97, 46, 106, 115, 111, 110>>  \* "a.json"
N_B_JSON == <<66, 46, 74, 83, 79, 78>>      \* "B.JSON"
N_mk == <<109, 107>>                        \* "mk"
N_s_d == <<115, 46, 100>>                   \* "s.d"
N_c_txt == <<99, 46, 116, 120, 116>>        \* "c.txt"
N_lk == <<108, 107>>                        \* "lk"
N_new == <<110, 101, 119>>                  \* "new"
N_x == <<120>>                              \* "x"
N_nope == <<110, 111, 112, 101>>            \* "nope"
E_json == <<106, 115, 111, 110>>            \* "json"
E_JSON == <<74, 83, 79, 78>>                \* "JSON"
E_dot_json == <<46, 106, 115, 111, 110>>      \* ".json"
E_json5 == <<106, 115, 111, 110, 53>>       \* "json5"

\* /w holds a.json, B.JSON and mk when wf; /w/s.d is a directory with
\* a.json and c.txt when sd; /o is absent, a regular file, a directory with
\* a.json, or such a directory with the symbolic link /w/lk to it
Tree(wf, sd, o) ==
    [dirs |-> {Root, <<N_w>>}
              \cup (IF sd THEN {<<N_w, N_s_d>>} ELSE {})
              \cup (IF o \in {"dir", "linked"} THEN {<<N_o>>} ELSE {}),
     files |-> (IF wf THEN {<<N_w, N_a_json>>, <<N_w, N_B_JSON>>, <<N_w, N_mk>>}
                ELSE {})
               \cup (IF sd THEN {<<N_w, N_s_d, N_a_json>>, <<N_w, N_s_d, N_c_txt>>}
                     ELSE {})
               \cup (IF o = "file" THEN {<<N_o>>} ELSE {})
               \cup (IF o \in {"dir", "linked"} THEN {<<N_o, N_a_json>>} ELSE {}),
     links |-> IF o = "linked" THEN (<<N_w, N_lk>> :> <<N_o>>) ELSE <<>>]

Trees ==
    {Tree(wf, sd, o) : wf \in BOOLEAN, sd \in BOOLEAN,
                       o \in {"absent", "file", "dir", "linked"}}

\* raw directory arguments: "", "/w/", "s.d/..", "../o", "lk", "a.json",
\* "new/x", "a.json/x"
RawDirArgs ==
    { <<<<>>>>, <<<<>>, N_w, <<>>>>, <<N_s_d, DotDotSeg>>, <<DotDotSeg, N_o>>,
      <<N_lk>>, <<N_a_json>>, <<N_new, N_x>>, <<N_a_json, N_x>> }

\* the values of -i and -o: "" (the option is absent), "../o", "lk",
\* "a.json", "new/x", "s.d"
ArgvDirArgs ==
    { <<<<>>>>, <<DotDotSeg, N_o>>, <<N_lk>>, <<N_a_json>>, <<N_new, N_x>>,
      <<N_s_d>> }

\* raw path arguments: ".", "a.json", "B.JSON", "mk", "s.d", "/o"
RawPathArgs ==
    { <<DotSeg>>, <<N_a_json>>, <<N_B_JSON>>, <<N_mk>>, <<N_s_d>>,
      <<<<>>, N_o>> }

RawPathLists ==
    UNION {[1..n -> RawPathArgs] : n \in 0..MaxRaw}

\* the positional arguments of a command line: none, "a.json", "nope",
\* "s.d" and ".."
ArgvPaths ==
    { <<>>, << <<N_a_json>> >>, << <<N_nope>> >>, << <<N_s_d>> >>,
      << <<DotDotSeg>> >> }

ExtArgs ==
    { <<>>, <<E_json>>, <<E_JSON>>, <<E_dot_json>>, <<E_json, E_json5>> }

ParentArgs == {NoneDir, Dir(<<N_w>>), Dir(<<N_w, N_s_d>>), Dir(<<N_o>>)}

(***************************************************************************)
(* State                                                                   *)
(***************************************************************************)
\* last is the one call made: its arguments, how it ended, what it
\* returned, and the file system before it
NoCall ==
    [op |-> "none", raw |-> <<>>, create |-> FALSE, input |-> <<>>,
     output |-> <<>>, force |-> FALSE, add_force |-> FALSE,
     raw_paths |-> <<>>, exts |-> <<>>, parent |-> NoneDir,
     outcome |-> "none", path |-> <<>>, input_dir |-> <<>>,
     output_dir |-> <<>>, paths |-> <<>>, files |-> <<>>, pre |-> <<>>]

\* no command has started
NoRun ==
    [pc |-> "off", cmd |-> "none", files |-> <<>>, i |-> 0,
     files_to_write |-> {}, copy |-> <<>>, bytes_saved |-> 0, changed |-> 0,
     warnings |-> 0, ret |-> 0, exc |-> "none",
     args |-> [cmd |-> "none", output |-> <<>>, force |-> FALSE,
               copy |-> <<>>, tinify_ok |-> FALSE],
     round |-> 0, writes |-> 0, files0 |-> <<>>, data0 |-> <<>>]

\* the dispatcher has not started
NoMain ==
    [pc |-> "off", argv |-> <<>>, callback |-> "none", extra_args |-> <<>>,
     calls |-> <<>>, helps |-> <<>>, ret |-> 0, exc |-> "none"]

Init ==
    /\ fs \in Trees
    /\ cwd \in {d \in {<<N_w>>, <<N_w, N_s_d>>} : d \in fs.dirs}
    /\ data = [p \in fs.files |-> <<>>]
    /\ last = NoCall
    /\ run = NoRun
    /\ disp = NoMain

\* the record of a call: the arguments args, the result r, the file system
\* before the call
Called(op, args, r) ==
    [op |-> op, pre |-> fs] @@ args @@ r @@ NoCall

\* the fields of a call record, taken from the merged record c
CallRecord(c) == [k \in DOMAIN NoCall |-> c[k]]

Perform(op, args, r) ==
    /\ last.op = "none"
    /\ fs' = (IF "fs" \in DOMAIN r THEN r.fs ELSE fs)
    /\ last' = CallRecord(Called(op, args, r))
    /\ UNCHANGED <<cwd, data, run, disp>>

CallGetDirPath ==
    /\ last.op = "none"
    /\ \E raw \in RawDirArgs, c \in BOOLEAN :
        Perform("get_dir_path", [raw |-> raw, create |-> c],
                get_dir_path(fs, cwd, raw, c))

CallGetInputOutput ==
    /\ last.op = "none"
    /\ \E i \in RawDirArgs, o \in RawDirArgs, force \in BOOLEAN :
        Perform("get_input_and_output_dir_paths",
                [input |-> i, output |-> o, force |-> force],
                get_input_and_output_dir_paths(fs, cwd, i, o, force))

CallGetRelevant ==
    /\ last.op = "none"
    /\ \E raws \in RawPathLists, exts \in ExtArgs, parent \in ParentArgs :
        Perform("get_relevant_file_paths",
                [raw_paths |-> raws, exts |-> exts, parent |-> parent],
                get_relevant_file_paths(fs, cwd, raws, exts, parent))

CallParseArgs ==
    /\ last.op = "none"
    /\ \E add_force \in BOOLEAN, exts \in {<<>>, <<E_json, E_json5>>},
          i \in ArgvDirArgs, o \in ArgvDirArgs, force \in BOOLEAN,
          paths \in ArgvPaths :
        Perform("parse_args",
                [input |-> i, output |-> o, force |-> force,
                 add_force |-> add_force, raw_paths |-> paths, exts |-> exts],
                parse_args(fs, cwd, add_force, exts,
                           [input |-> i, output |-> o, force |-> force,
                            paths |-> paths]))

Next ==
    \/ CallGetDirPath
    \/ CallGetInputOutput
    \/ CallGetRelevant
    \/ CallParseArgs

Spec == Init /\ [][Next]_vars

(***************************************************************************)
(* The commands: minify_json.main, remove_blank_lines.main,                *)
(* tinify_pngs.main                                                        *)
(*                                                                         *)
(* A file's content is its sequence of bytes.  run is the position of the  *)
(* command: off, in its loop over args.files (i is the next pair), done    *)
(* (ret is what main returns), exit (SystemExit, ret its code) or raised   *)
(* (exc is the exception that escaped main).                               *)
(***************************************************************************)
N_b_json == <<98, 46, 106, 115, 111, 110>>   \* "b.json"
N_p_png == <<112, 46, 112, 110, 103>>        \* "p.png"
N_q_png == <<113, 46, 112, 110, 103>>        \* "q.png"
E_png == <<112, 110, 103>>                   \* "png"

J_spaced == <<123, 32, 125>>                 \* "{ }"
J_min == <<123, 125>>                        \* "{}"
J_half == <<46, 53>>                         \* ".5"
J_zero_half == <<48, 46, 53>>                \* "0.5"
J_bad == <<123>>                             \* "{"
T_blank == <<97, 10, 10, 98>>                \* "a\n\nb"
P_big == <<137, 80, 78, 71, 1, 1>>           \* a PNG that compresses
P_small == <<137, 80, 78, 71>>               \* a PNG that grows
P_grown == <<137, 80, 78, 71, 1>>            \* P_small after compression
P_bad == <<137, 0>>                          \* not a PNG

\* pyjson5.loads accepts the text (of the documents that are tried)
Json5Parses(text) == text \in {J_spaced, J_min, J_half, J_zero_half}

\* json.dumps(pyjson5.loads(text), ensure_ascii=False, separators=(",", ":"))
MinifiedJson(text) ==
    IF text \in {J_spaced, J_min} THEN J_min ELSE J_zero_half

\* the Tinify service accepts the image (of the images that are tried)
TinifyAccepts(bytes) == bytes \in {P_big, P_small, P_grown}

\* what tinify.from_file(input_file).to_file(output_file) writes
Tinified(bytes) ==
    IF bytes = P_big THEN P_small ELSE P_grown

\* str(path)
RECURSIVE PathStr(_)
PathStr(p) ==
    IF p = <<>> THEN <<>> ELSE <<47>> \o Head(p) \o PathStr(Tail(p))

\* re.search of a pattern without special characters
Contains(str, pat) ==
    \E i \in 0..(Len(str) - Len(pat)) : SubSeq(str, i + 1, i + Len(pat)) = pat

\* the should_copy predicate of parse_args: copy is the value of -c, ""
\* when absent, and then "$^", which never matches, is compiled
ShouldCopy(copy, path) == copy # <<>> /\ Contains(PathStr(path), copy)

\* Path.exists
Exists(f, p) == IsFile(f, p) \/ IsDir(f, p)

\* Path.read_text: the text, or the exception raised
ReadText(f, d, p) ==
    IF IsDir(f, p) THEN [err |-> "IsADirectoryError", text |-> <<>>]
    ELSE IF ~IsFile(f, p) THEN [err |-> "FileNotFoundError", text |-> <<>>]
    ELSE IF \E i \in 1..Len(d[p]) : d[p][i] >= 128
    THEN [err |-> "UnicodeDecodeError", text |-> <<>>]
    ELSE [err |-> "none", text |-> d[p]]

\* the file system and the contents after a write of bytes to p
Written(f, d, p, bytes) ==
    [exc |-> "none", fs |-> [f EXCEPT !.files = @ \cup {p}],
     data |-> [q \in DOMAIN d \cup {p} |-> IF q = p THEN bytes ELSE d[q]],
     wrote |-> 1]

\* the file system and the contents after a pass that writes nothing
Untouched(f, d) == [exc |-> "none", fs |-> f, data |-> d, wrote |-> 0]

\* what one pass of a loop body did: the exception that escaped it, the
\* file system and contents it left, what it added to the counters, and
\* the number of files it wrote
Raised(exc, f, d) ==
    [exc |-> exc, fs |-> f, data |-> d, saved |-> 0, changed |-> 0, warn |-> 0,
     wrote |-> 0]

Counted(w, saved, changed) ==
    [exc |-> "none", fs |-> w.fs, data |-> w.data, saved |-> saved,
     changed |-> changed, warn |-> IF saved < 0 THEN -1 ELSE 0,
     wrote |-> w.wrote]

\* Path.write_text and tinify's to_file on p
WriteFile(f, d, p, bytes) ==
    IF IsDir(f, p) THEN Raised("IsADirectoryError", f, d)
    ELSE Written(f, d, p, bytes)

\* lines 43-64 of minify_json.py (43-58 of tinify_pngs.py), w being the
\* state after the write: the sizes are read back from the files
Measured(w, input_file, output_file) ==
    IF w.exc # "none" THEN w
    ELSE Counted(w, Len(w.data[input_file]) - Len(w.data[output_file]), 1)

\* a write that is not counted (minify_json.py lines 36-38)
Uncounted(w) == IF w.exc # "none" THEN w ELSE Counted(w, 0, 0)

\* a write counted as one file, without sizes
CountedOne(w) == IF w.exc # "none" THEN w ELSE Counted(w, 0, 1)

\* output_file.exists() and (output_file.read_text() == output_text), rd
\* being the read of the output file
SameAsOutput(f, output_file, rd, output_text) ==
    Exists(f, output_file) /\ rd.err = "none" /\ rd.text = output_text

OutputReadFails(f, output_file, rd) ==
    Exists(f, output_file) /\ rd.err # "none"

\* minify_json.py lines 34-64, output_text being computed
MinifyWrite(f, d, input_file, output_file, copy, output_text, rd) ==
    IF OutputReadFails(f, output_file, rd) THEN Raised(rd.err, f, d)
    ELSE IF SameAsOutput(f, output_file, rd, output_text)
    THEN Counted(Untouched(f, d), 0, 0)
    ELSE IF ShouldCopy(copy, input_file)
    THEN Uncounted(WriteFile(f, d, output_file, output_text))
    ELSE Measured(WriteFile(f, d, output_file, output_text), input_file,
                  output_file)

\* minify_json.py lines 24-32, rd being the read of the input file: the text
\* itself when the file is to be copied, else the minified text
MinifyText(f, d, input_file, output_file, copy, rd) ==
    IF rd.err # "none" THEN Raised(rd.err, f, d)
    ELSE IF ShouldCopy(copy, input_file)
    THEN MinifyWrite(f, d, input_file, output_file, copy, rd.text,
                     ReadText(f, d, output_file))
    ELSE IF ~Json5Parses(rd.text) THEN Raised("Json5DecoderException", f, d)
    ELSE MinifyWrite(f, d, input_file, output_file, copy,
                     MinifiedJson(rd.text), ReadText(f, d, output_file))

\* one pass of the loop of minify_json.main
MinifyFile(f, d, input_file, output_file, copy) ==
    MinifyText(f, d, input_file, output_file, copy, ReadText(f, d, input_file))

\* re.compile("\n\n").sub("\n", text): matches are taken left to right and
\* do not overlap
RECURSIVE RemoveBlank(_)
RemoveBlank(text) ==
    IF Len(text) < 2 THEN text
    ELSE IF text[1] = 10 /\ text[2] = 10
    THEN <<10>> \o RemoveBlank(SubSeq(text, 3, Len(text)))
    ELSE <<text[1]>> \o RemoveBlank(Tail(text))

\* remove_blank_lines.py lines 21-28
BlankWrite(f, d, output_file, output_text, rd) ==
    IF OutputReadFails(f, output_file, rd) THEN Raised(rd.err, f, d)
    ELSE IF SameAsOutput(f, output_file, rd, output_text)
    THEN Counted(Untouched(f, d), 0, 0)
    ELSE CountedOne(WriteFile(f, d, output_file, output_text))

\* remove_blank_lines.py line 18, rd being the read of the input file
BlankText(f, d, output_file, rd) ==
    IF rd.err # "none" THEN Raised(rd.err, f, d)
    ELSE BlankWrite(f, d, output_file, RemoveBlank(rd.text),
                    ReadText(f, d, output_file))

\* one pass of the loop of remove_blank_lines.main
RemoveBlankLinesFile(f, d, input_file, output_file) ==
    BlankText(f, d, output_file, ReadText(f, d, input_file))

\* one pass of the loop of tinify_pngs.main: an output file that existed
\* when the command started is left alone, a file to copy is copied, any
\* other is sent to Tinify, which raises on what it cannot read
TinifyFile(f, d, input_file, output_file, copy, files_to_write) ==
    IF output_file \notin files_to_write
    THEN Counted(Untouched(f, d), 0, 0)
    ELSE IF IsDir(f, input_file) THEN Raised("IsADirectoryError", f, d)
    ELSE IF ~IsFile(f, input_file) THEN Raised("FileNotFoundError", f, d)
    ELSE IF ShouldCopy(copy, input_file)
    THEN CountedOne(WriteFile(f, d, output_file, d[input_file]))
    ELSE IF ~TinifyAccepts(d[input_file]) THEN Raised("tinify.ClientError", f, d)
    ELSE Measured(WriteFile(f, d, output_file, Tinified(d[input_file])),
                  input_file, output_file)

Commands == {"minify-json", "remove-blank-lines", "tinify-pngs"}

\* the file extensions each command gives its FileIOParser
FileExts(cmd) ==
    IF cmd = "minify-json" THEN <<E_json, E_json5>>
    ELSE IF cmd = "tinify-pngs" THEN <<E_png>>
    ELSE <<>>

\* add_copy_option of each command's FileIOParser
AddCopyOption(cmd) == cmd # "remove-blank-lines"

\* [out_file for _, out_file in args.files if not out_file.exists()]
FilesToWrite(f, files) ==
    {files[k][2] : k \in {j \in 1..Len(files) : ~Exists(f, files[j][2])}}

\* the command after its parse_args, pa being the result of parse_args:
\* SystemExit and exceptions end it; tinify-pngs returns -1 when there are
\* files to write and Tinify could not be set up
Started(cmd, copy, tinify_ok, pa) ==
    IF pa.outcome \in {"exit1", "exit2"}
    THEN [NoRun EXCEPT !.pc = "exit", !.cmd = cmd,
                       !.ret = IF pa.outcome = "exit1" THEN 1 ELSE 2]
    ELSE IF pa.outcome # "return"
    THEN [NoRun EXCEPT !.pc = "raised", !.cmd = cmd, !.exc = pa.outcome]
    ELSE IF /\ cmd = "tinify-pngs"
            /\ FilesToWrite(pa.fs, pa.files) # {}
            /\ ~tinify_ok
    THEN [NoRun EXCEPT !.pc = "done", !.cmd = cmd, !.files = pa.files,
                       !.ret = -1]
    ELSE [NoRun EXCEPT !.pc = "loop", !.cmd = cmd, !.files = pa.files,
                       !.i = 1, !.copy = copy,
                       !.files_to_write =
                           IF cmd = "tinify-pngs"
                           THEN FilesToWrite(pa.fs, pa.files) ELSE {}]

\* -c on the command line of a parser without the copy option is
\* argparse's SystemExit(2)
UnknownCopy(cmd, copy) == copy # <<>> /\ ~AddCopyOption(cmd)

\* the values of -o that are tried: "../o", "s.d" and "" (absent)
RunOutputArgs == { <<DotDotSeg, N_o>>, <<N_s_d>>, <<<<>>>> }

\* the values of -c that are tried: "" (absent) and "b"
RunCopyArgs == { <<>>, <<98>> }

\* the command lines that are tried: the command, -o, -f, -c, and whether
\* Tinify can be set up
RunArgs ==
    [cmd : Commands, output : RunOutputArgs, force : BOOLEAN,
     copy : RunCopyArgs, tinify_ok : BOOLEAN]

\* the command line a, parsed by the command's parser (every command
\* builds its parser with the -f option)
ParsedArgs(f, wd, a) ==
    parse_args(f, wd, TRUE, FileExts(a.cmd),
               [input |-> <<<<>>>>, output |-> a.output, force |-> a.force,
                paths |-> <<>>])

\* main up to its loop, on the command line a: the command line is parsed
\* and the counters are set to 0
MainStart(f, wd, a) ==
    IF UnknownCopy(a.cmd, a.copy)
    THEN [NoRun EXCEPT !.pc = "exit", !.cmd = a.cmd, !.ret = 2]
    ELSE Started(a.cmd, a.copy, a.tinify_ok, ParsedArgs(f, wd, a))

\* the file system main leaves when it reaches its loop
MainStartFs(f, wd, a) ==
    IF UnknownCopy(a.cmd, a.copy) THEN f ELSE ParsedArgs(f, wd, a).fs

\* a command is run
StartCommand ==
    /\ run.pc = "off"
    /\ \E a \in RunArgs :
          /\ run' = [MainStart(fs, cwd, a) EXCEPT !.args = a, !.round = 1,
                                                  !.data0 = data]
          /\ fs' = MainStartFs(fs, cwd, a)
    /\ UNCHANGED <<cwd, data, last, disp>>

\* the command that has completed is run once more, on the same command
\* line
RerunCommand ==
    /\ run.pc = "done"
    /\ run.round = 1
    /\ run' = [MainStart(fs, cwd, run.args) EXCEPT !.args = run.args,
                                                   !.round = 2,
                                                   !.files0 = run.files,
                                                   !.data0 = run.data0]
    /\ fs' = MainStartFs(fs, cwd, run.args)
    /\ UNCHANGED <<cwd, data, last, disp>>

\* the command r after one pass st of its loop body: an exception ends
\* main, else the counters grow and the loop goes on to the next pair
AfterStep(r, st) ==
    IF st.exc # "none"
    THEN [r EXCEPT !.pc = "raised", !.exc = st.exc]
    ELSE [r EXCEPT !.i = @ + 1,
                   !.writes = @ + st.wrote,
                   !.bytes_saved = @ + st.saved,
                   !.changed = @ + st.changed,
                   !.warnings = @ + st.warn]

\* the effect of one pass st of a loop body
LoopStep(st) ==
    /\ fs' = st.fs
    /\ data' = st.data
    /\ run' = AfterStep(run, st)
    /\ UNCHANGED <<cwd, last, disp>>

InLoop(cmd) == run.pc = "loop" /\ run.cmd = cmd /\ run.i <= Len(run.files)

StepMinifyJson ==
    /\ InLoop("minify-json")
    /\ LoopStep(MinifyFile(fs, data, run.files[run.i][1], run.files[run.i][2],
                           run.copy))

StepRemoveBlankLines ==
    /\ InLoop("remove-blank-lines")
    /\ LoopStep(RemoveBlankLinesFile(fs, data, run.files[run.i][1],
                                     run.files[run.i][2]))

StepTinifyPngs ==
    /\ InLoop("tinify-pngs")
    /\ LoopStep(TinifyFile(fs, data, run.files[run.i][1], run.files[run.i][2],
                           run.copy, run.files_to_write))

\* what main returns after its loop: files_changed for remove-blank-lines,
\* "warnings or files_changed" for the other two
ReturnValue(r) ==
    IF r.cmd # "remove-blank-lines" /\ r.warnings # 0 THEN r.warnings
    ELSE r.changed

FinishCommand ==
    /\ run.pc = "loop"
    /\ run.i > Len(run.files)
    /\ run' = [run EXCEPT !.pc = "done", !.ret = ReturnValue(run)]
    /\ UNCHANGED <<fs, cwd, data, last, disp>>

\* one pass of the loop body of the command r, on its pair r.i
FileStep(r, f, d) ==
    IF r.cmd = "minify-json"
    THEN MinifyFile(f, d, r.files[r.i][1], r.files[r.i][2], r.copy)
    ELSE IF r.cmd = "remove-blank-lines"
    THEN RemoveBlankLinesFile(f, d, r.files[r.i][1], r.files[r.i][2])
    ELSE TinifyFile(f, d, r.files[r.i][1], r.files[r.i][2], r.copy,
                    r.files_to_write)

\* the command r run from where it stands to its end: the file system and
\* the contents it leaves, and how it ended
RECURSIVE RunToEnd(_, _, _)
RunOn(r, st) == RunToEnd(st.fs, st.data, AfterStep(r, st))

RunToEnd(f, d, r) ==
    IF r.pc # "loop" THEN [fs |-> f, data |-> d, run |-> r]
    ELSE IF r.i > Len(r.files)
    THEN [fs |-> f, data |-> d,
          run |-> [r EXCEPT !.pc = "done", !.ret = ReturnValue(r)]]
    ELSE RunOn(r, FileStep(r, f, d))

\* the input directory /w with a.json, b.json, p.png and q.png, perhaps the
\* empty directory s.d and the text t.d; the output directory /o, perhaps
\* with an a.json already minified
RunTree(sd, out) ==
    [dirs |-> {Root, <<N_w>>, <<N_o>>}
              \cup (IF sd THEN {<<N_w, N_s_d>>} ELSE {}),
     files |-> {<<N_w, N_a_json>>, <<N_w, N_b_json>>, <<N_w, N_p_png>>,
                <<N_w, N_q_png>>}
               \cup (IF out THEN {<<N_o, N_a_json>>} ELSE {}),
     links |-> <<>>]

\* the same tree without the two images
RunTreeNoPng(sd, out) ==
    [RunTree(sd, out) EXCEPT
        !.files = @ \ {<<N_w, N_p_png>>, <<N_w, N_q_png>>}]

RunData(f, a, b, pp) ==
    [q \in f.files |->
        IF q = <<N_w, N_a_json>> THEN a
        ELSE IF q = <<N_w, N_b_json>> THEN b
        ELSE IF q = <<N_w, N_p_png>> THEN pp
        ELSE IF q = <<N_w, N_q_png>> THEN P_big
        ELSE J_min]

RunInit ==
    /\ \E sd \in BOOLEAN, out \in BOOLEAN :
          fs \in {RunTree(sd, out), RunTreeNoPng(sd, out)}
    /\ cwd = <<N_w>>
    /\ \E a \in {J_spaced, J_min, J_half, J_bad}, b \in {J_spaced, T_blank},
          pp \in {P_big, P_small, P_bad} : data = RunData(fs, a, b, pp)
    /\ last = NoCall
    /\ run = NoRun
    /\ disp = NoMain

RunNext ==
    \/ StartCommand
    \/ RerunCommand
    \/ StepMinifyJson
    \/ StepRemoveBlankLines
    \/ StepTinifyPngs
    \/ FinishCommand

SpecRun == RunInit /\ [][RunNext]_vars

(***************************************************************************)
(* The dispatcher: __main__.main and commands.CommandParser                *)
(*                                                                         *)
(* disp is the position of main: top (the command line argv is about to be *)
(* parsed), parsed (callback and extra_args are what parse_known_args      *)
(* gave), returned (ret is what main returned), exit (SystemExit, ret its  *)
(* code) or raised.  calls lists the command callbacks called, each with   *)
(* its arguments, how it ended (done, exit or raised) and its value; helps *)
(* lists the help displays of the top level, each with the file argument   *)
(* print_help was given ("None" when it was given none).  A callback is    *)
(* the main function of its command, run from its parser to its return.    *)
(***************************************************************************)
\* the commands get_script_module_paths supplies to main, by name
get_script_module_paths ==
    <<"minify-json", "remove-blank-lines", "tinify-pngs">>

\* the names add_command has registered as subparsers
Registered == {get_script_module_paths[k] : k \in DOMAIN get_script_module_paths}

\* the tokens command lines are made of
Tokens == {"minify-json", "tinify-pngs", "foo", "a.json", "-h", "-v", "-f"}

\* the tokens argparse takes for option strings (they begin with "-")
IsOptionString(t) == t \in {"-h", "-v", "-f"}

\* the tokens as file names
TokenName(t) ==
    IF t = "a.json" THEN N_a_json
    ELSE IF t = "foo" THEN <<102, 111, 111>>
    ELSE IF t = "minify-json"
    THEN <<109, 105, 110, 105, 102, 121, 45, 106, 115, 111, 110>>
    ELSE <<116, 105, 110, 105, 102, 121, 45, 112, 110, 103, 115>>

ArgvLists == UNION {[1..n -> Tokens] : n \in 0..MaxArgs}

\* the top level with a bug: the first token is taken for the command
\* whatever it is
ParseFrom_AnyFirst(argv, i, extras) ==
    IF argv = <<>>
    THEN [pc |-> "parsed", callback |-> "print_help", extra_args |-> <<>>,
          ret |-> 0, helps |-> <<>>]
    ELSE [pc |-> "parsed", callback |-> Head(argv), extra_args |-> Tail(argv),
          ret |-> 0, helps |-> <<>>]

\* parser.parse_known_args() from token i on, extras being the tokens the
\* top level has not recognised so far.  -h is the top level's help option:
\* it prints the help and exits with 0.  Any other option string is left
\* over.  The first positional token goes to the subparsers action: a
\* registered name selects that subparser, which has no arguments of its
\* own (add_help=False) and leaves every later token over; any other token
\* is argparse's "invalid choice" error, SystemExit(2).  With no positional
\* token the callback stays the default, print_help.
RECURSIVE ParseFrom(_, _, _)
ParseFrom(argv, i, extras) ==
    IF i > Len(argv)
    THEN [pc |-> "parsed", callback |-> "print_help", extra_args |-> extras,
          ret |-> 0, helps |-> <<>>]
    ELSE IF argv[i] = "-h"
    THEN [pc |-> "exit", callback |-> "none", extra_args |-> <<>>,
          ret |-> 0, helps |-> <<"None">>]
    ELSE IF IsOptionString(argv[i])
    THEN ParseFrom(argv, i + 1, Append(extras, argv[i]))
    ELSE IF argv[i] \in Registered
    THEN [pc |-> "parsed", callback |-> argv[i],
          extra_args |-> extras \o SubSeq(argv, i + 1, Len(argv)),
          ret |-> 0, helps |-> <<>>]
    ELSE [pc |-> "exit", callback |-> "none", extra_args |-> <<>>,
          ret |-> 2, helps |-> <<>>]

\* main, lines 19-30: the parser is built, the commands are registered and
\* the command line is parsed
MainParse ==
    /\ disp.pc = "top"
    /\ disp' = [pc |-> ParseFrom(disp.argv, 1, <<>>).pc,
                argv |-> disp.argv,
                callback |-> ParseFrom(disp.argv, 1, <<>>).callback,
                extra_args |-> ParseFrom(disp.argv, 1, <<>>).extra_args,
                calls |-> <<>>,
                helps |-> ParseFrom(disp.argv, 1, <<>>).helps,
                ret |-> ParseFrom(disp.argv, 1, <<>>).ret,
                exc |-> "none"]
    /\ UNCHANGED <<fs, cwd, data, last, run>>

\* "value or 0"
OrZero(value) == IF value = 0 THEN 0 ELSE value

\* main, line 31, when no command was selected: print_help(extra_args).  Its
\* file parameter is "file or sys.stdout": an empty list gives the help on
\* standard output and None is returned; a list of options is taken for
\* the file to write to, and writing to it raises
MainPrintHelp ==
    /\ disp.pc = "parsed"
    /\ disp.callback = "print_help"
    /\ disp' = IF disp.extra_args = <<>>
               THEN [disp EXCEPT !.pc = "returned", !.ret = 0,
                                 !.helps = Append(@, "None")]
               ELSE [disp EXCEPT !.pc = "raised", !.exc = "AttributeError"]
    /\ UNCHANGED <<fs, cwd, data, last, run>>

\* token k of args begins a run of positional tokens
StartsRun(args, k) ==
    /\ ~IsOptionString(args[k])
    /\ (k = 1 \/ IsOptionString(args[k - 1]))

\* the positional tokens of args up to the first option after them: what
\* the PATHS argument (nargs="*") takes
RECURSIVE FirstRun(_, _)
FirstRun(args, k) ==
    IF k > Len(args) THEN <<>>
    ELSE IF IsOptionString(args[k])
    THEN (IF \E j \in 1..(k - 1) : ~IsOptionString(args[j]) THEN <<>>
          ELSE FirstRun(args, k + 1))
    ELSE << <<TokenName(args[k])>> >> \o FirstRun(args, k + 1)

\* ArgumentParser.parse_args of a command's FileIOParser on args (fileio.py
\* lines 63-90 and 112): -h shows the command's help and exits with 0;
\* positional tokens after an option that follows the paths are
\* unrecognised, SystemExit(2); else the paths and the -f flag
CommandArgs(args) ==
    IF \E k \in DOMAIN args : args[k] = "-h"
    THEN [outcome |-> "exit0", paths |-> <<>>, force |-> FALSE]
    ELSE IF Cardinality({k \in DOMAIN args : StartsRun(args, k)}) > 1
    THEN [outcome |-> "exit2", paths |-> <<>>, force |-> FALSE]
    ELSE [outcome |-> "ok", paths |-> FirstRun(args, 1),
          force |-> \E k \in DOMAIN args : args[k] = "-f"]

\* the command cmd stopped by SystemExit(code) before its loop
Exited(f, d, cmd, code) ==
    [fs |-> f, data |-> d,
     run |-> [NoRun EXCEPT !.pc = "exit", !.cmd = cmd, !.ret = code]]

\* the command after parse_args gave pa: its loop is run to the end
CommandRun(d, cmd, tinify_ok, pa) ==
    RunToEnd(pa.fs, d, Started(cmd, <<>>, tinify_ok, pa))

\* main(args) of the command cmd, from its parser to its return
CommandParsed(f, wd, d, cmd, tinify_ok, a) ==
    IF a.outcome = "exit0" THEN Exited(f, d, cmd, 0)
    ELSE IF a.outcome = "exit2" THEN Exited(f, d, cmd, 2)
    ELSE CommandRun(d, cmd, tinify_ok,
                    parse_args(f, wd, TRUE, FileExts(cmd),
                               [input |-> <<<<>>>>, output |-> <<<<>>>>,
                                force |-> a.force, paths |-> a.paths]))

CommandMain(f, wd, d, cmd, args, tinify_ok) ==
    CommandParsed(f, wd, d, cmd, tinify_ok, CommandArgs(args))

\* main after the callback ended as e: a callback that returned makes main
\* return its value, or 0; SystemExit and exceptions pass through main
AfterCallback(dp, e) ==
    [dp EXCEPT !.pc = IF e.run.pc = "done" THEN "returned" ELSE e.run.pc,
               !.ret = IF e.run.pc = "done" THEN OrZero(e.run.ret)
                       ELSE e.run.ret,
               !.exc = e.run.exc,
               !.calls = Append(@, [name |-> dp.callback,
                                    args |-> dp.extra_args,
                                    outcome |-> e.run.pc,
                                    value |-> e.run.ret])]

\* the callback has run and ended as e
Callback(e) ==
    /\ fs' = e.fs
    /\ data' = e.data
    /\ disp' = AfterCallback(disp, e)

\* main, line 31, when a command was selected: its callback, the command's
\* main, is called with the tokens left over; Tinify can be set up or not
MainCallback ==
    /\ disp.pc = "parsed"
    /\ disp.callback # "print_help"
    /\ \E tinify_ok \in BOOLEAN :
          Callback(CommandMain(fs, cwd, data, disp.callback, disp.extra_args,
                               tinify_ok))
    /\ UNCHANGED <<cwd, last, run>>

MainInit ==
    /\ fs = RunTree(FALSE, FALSE)
    /\ cwd = <<N_w>>
    /\ \E a \in {J_min, J_spaced, J_half, J_bad} :
          data = RunData(fs, a, J_min, P_big)
    /\ last = NoCall
    /\ run = NoRun
    /\ \E argv \in ArgvLists : disp = [NoMain EXCEPT !.pc = "top", !.argv = argv]

MainNext ==
    \/ MainParse
    \/ MainPrintHelp
    \/ MainCallback

SpecMain == MainInit /\ [][MainNext]_vars

(***************************************************************************)
(* Properties of the directory functions and of discovery                  *)
(***************************************************************************)
Returned(op) == last.op = op /\ last.outcome = "return"

\* the directory a raw path names in the file system before the call
PreDir(raw) == Resolve(last.pre, cwd, raw, FALSE).path

\* C1: when both raw paths resolve to the same existing directory D,
\* get_input_and_output_dir_paths ends in SystemExit(1) without force (and
\* changes nothing) and returns (D, D) with force.
C1_SameDirectory ==
    (/\ last.op = "get_input_and_output_dir_paths"
     /\ PreDir(last.input) = PreDir(last.output)
     /\ PreDir(last.input) \in last.pre.dirs)
    => IF last.force
       THEN /\ last.outcome = "return"
            /\ last.input_dir = PreDir(last.input)
            /\ last.output_dir = PreDir(last.input)
       ELSE last.outcome = "exit1" /\ fs = last.pre

\* the same directory spelled "lk" (a symbolic link) and "../o", no force
C1_Witness ==
    /\ last.op = "get_input_and_output_dir_paths"
    /\ last.input = <<N_lk>>
    /\ last.output = <<DotDotSeg, N_o>>
    /\ PreDir(last.input) = <<N_o>>
    /\ PreDir(last.output) = <<N_o>>
    /\ <<N_o>> \in last.pre.dirs
    /\ ~last.force
    /\ last.outcome = "exit1"

\* C2: without -f on the command line, parse_args creates no missing input
\* or output directory and never returns with the input and the output
\* directory the same, whatever add_force_option is.
C2_NoForceNoBypass ==
    (last.op = "parse_args" /\ ~last.force)
    => /\ PreDir(last.input) \notin last.pre.dirs
          => PreDir(last.input) \notin fs.dirs
       /\ PreDir(last.output) \notin last.pre.dirs
          => PreDir(last.output) \notin fs.dirs
       /\ ~(last.outcome = "return" /\ last.input_dir = last.output_dir)

\* the scope of the get_relevant_file_paths call made
Scope == ResolveParent(last.pre, cwd, last.parent).path

\* C3: every path returned by get_relevant_file_paths is relative, and
\* joined to the scope directory it is a strict descendant of it; raw paths
\* outside the scope raise nothing.
C3_StrictDescendants ==
    /\ (Returned("get_relevant_file_paths") /\ Scope \in last.pre.dirs)
       => \A i \in 1..Len(last.paths) :
             /\ last.paths[i] # <<>>
             /\ \A k \in 1..Len(last.paths[i]) :
                   last.paths[i][k] \notin {<<>>, DotSeg, DotDotSeg}
             /\ Scope \o last.paths[i] \in Entries(last.pre)
    /\ (/\ last.op = "get_relevant_file_paths"
        /\ Scope \in last.pre.dirs
        /\ \A i \in 1..Len(last.raw_paths) :
              Resolve(last.pre, cwd, last.raw_paths[i], TRUE).err = "none")
       => last.outcome = "return"

\* str.lstrip(".")
RECURSIVE StripDots(_)
StripDots(s) ==
    IF s # <<>> /\ Head(s) = 46 THEN StripDots(Tail(s)) ELSE s

\* the file f is named by one of the raw paths, or lies below a directory
\* one of them names
Reachable(f, raws) ==
    \E i \in 1..Len(raws) :
        LET r == Resolve(last.pre, cwd, raws[i], TRUE)
        IN /\ r.err = "none"
           /\ \/ r.path = f
              \/ r.path \in last.pre.dirs /\ IsRelativeTo(f, r.path)

\* the extension filter lets the file name through: it is empty, or holds
\* the name's suffix, lowercased and without its dot
FilterAllows(exts, name) ==
    \/ exts = <<>>
    \/ \E i \in 1..Len(exts) :
          StripDots(Lower(exts[i])) = StripDots(Lower(Suffix(name)))

\* C4: a file inside the scope and reachable from the raw paths is in the
\* result exactly when the filter is empty or holds its lowercased suffix.
C4_FilterIff ==
    Returned("get_relevant_file_paths")
    => \A f \in last.pre.files :
          (/\ IsRelativeTo(f, Scope)
           /\ Reachable(f, DefaultRawPaths(last.raw_paths)))
          => (InSeq(last.paths, RelativeTo(f, Scope))
              <=> FilterAllows(last.exts, f[Len(f)]))

\* the result of the call made, had its raw paths been raws
ResultFor(raws) ==
    get_relevant_file_paths(last.pre, cwd, raws, last.exts, last.parent)

\* C5 as stated: with no raw paths the scope directory itself is scanned,
\* whatever the scope is.
C5_EmptyScansScope ==
    (last.op = "get_relevant_file_paths" /\ last.raw_paths = <<>>
     /\ Scope \in last.pre.dirs)
    => /\ last.outcome = ResultFor(<< <<<<>>>> \o Scope >>).outcome
       /\ last.paths = ResultFor(<< <<<<>>>> \o Scope >>).paths

\* what a scan of the current working directory returns under the default
\* scope, the exts being those of the call
OwnScan ==
    get_relevant_file_paths(last.pre, cwd, <<>>, last.exts, NoneDir).paths

\* C5, amended: with no raw paths the current working directory is
\* scanned and the result cut down to the scope: it is the result for the
\* current working directory as the only raw path, and every path returned
\* lies inside the current working directory.  When the scope is the
\* current working directory or an ancestor of it, the result is all that
\* the scan of the current working directory finds, relative to the scope
\* (for the current working directory itself: the scan of the scope); when
\* neither directory contains the other the result is empty.
C5_EmptyScansCwd ==
    (last.op = "get_relevant_file_paths" /\ last.raw_paths = <<>>
     /\ Scope \in last.pre.dirs)
    => /\ last.outcome = ResultFor(<< <<<<>>>> \o cwd >>).outcome
       /\ last.paths = ResultFor(<< <<<<>>>> \o cwd >>).paths
       /\ \A i \in 1..Len(last.paths) :
             IsRelativeTo(Scope \o last.paths[i], cwd)
       /\ IsRelativeTo(cwd, Scope)
          => last.paths = [i \in 1..Len(OwnScan) |->
                              RelativeTo(cwd, Scope) \o OwnScan[i]]
       /\ Scope = cwd
          => last.paths = ResultFor(<< <<<<>>>> \o Scope >>).paths
       /\ (~IsRelativeTo(cwd, Scope) /\ ~IsRelativeTo(Scope, cwd))
          => last.paths = <<>>

\* no raw paths and the scope /o outside the current directory: nothing is
\* found although /o holds a.json
C5_Witness ==
    /\ Returned("get_relevant_file_paths")
    /\ last.raw_paths = <<>>
    /\ last.exts = <<>>
    /\ Scope = <<N_o>>
    /\ <<N_o, N_a_json>> \in last.pre.files
    /\ last.paths = <<>>
    /\ <<N_w, N_a_json>> \in last.pre.files

\* C6: the list returned by get_relevant_file_paths has no duplicates.
C6_NoDuplicates ==
    Returned("get_relevant_file_paths")
    => \A i, j \in 1..Len(last.paths) :
          i # j => last.paths[i] # last.paths[j]

\* a.json named directly and found again in the enclosing directory
C6_Witness ==
    /\ Returned("get_relevant_file_paths")
    /\ last.raw_paths = << <<N_a_json>>, <<DotSeg>> >>
    /\ Scope = cwd
    /\ Cardinality({i \in 1..Len(last.paths) : last.paths[i] = <<N_a_json>>}) = 1
    /\ Len(last.paths) > 1

Reverse(s) == [i \in 1..Len(s) |-> s[Len(s) + 1 - i]]

\* C7: the list is in ascending order of absolute path and does not depend
\* on the order of the raw path arguments.
C7_SortedDeterministic ==
    Returned("get_relevant_file_paths")
    => /\ \A i, j \in 1..Len(last.paths) :
             i < j => ~PathLess(Scope \o last.paths[j], Scope \o last.paths[i])
       /\ ResultFor(Reverse(last.raw_paths))
             = [outcome |-> "return", paths |-> last.paths]

\* two different raw paths, the later one sorting first
C7_Witness ==
    /\ Returned("get_relevant_file_paths")
    /\ last.raw_paths = << <<N_mk>>, <<N_B_JSON>> >>
    /\ last.exts = <<>>
    /\ last.paths = << <<N_B_JSON>>, <<N_mk>> >>

\* C8: get_dir_path exits with code 1 on a regular file and changes
\* nothing; a path that does not exist is created (with parents) and
\* returned with create_if_missing, and is SystemExit(1) with nothing
\* created without; a returned path is a directory.
C8_DirPathOutcomes ==
    last.op = "get_dir_path"
    => /\ PreDir(last.raw) \in last.pre.files
          => last.outcome = "exit1" /\ fs = last.pre
       /\ (PreDir(last.raw) \notin last.pre.files
           /\ PreDir(last.raw) \notin last.pre.dirs)
          => IF last.create
             THEN /\ last.outcome = "return"
                  /\ last.path = PreDir(last.raw)
                  /\ fs.dirs = last.pre.dirs \cup Prefixes(PreDir(last.raw))
             ELSE last.outcome = "exit1" /\ fs = last.pre
       /\ last.outcome = "return"
          => last.path = PreDir(last.raw) /\ last.path \in fs.dirs

\* C9: when parse_args (of a parser with the -f option, as every command
\* builds) aborts with a directory or scope error, the file system is as it
\* was before the call.
C9_AbortChangesNothing ==
    (last.op = "parse_args" /\ last.add_force
     /\ last.outcome \in {"exit1", "FileNotFoundError"})
    => fs = last.pre

(***************************************************************************)
(* Properties of the commands                                              *)
(***************************************************************************)
\* C10: in each command's loop a failure on one file is caught and counted
\* and the remaining pairs are still processed: when main has ended, after
\* its loop began, every pair of the list has been processed.
C10_BadFileDoesNotAbort ==
    (run.pc \in {"done", "raised"} /\ run.files # <<>> /\ run.ret # -1)
    => run.i > Len(run.files)

\* main ended before its loop because Tinify could not be set up
SetupFailed == run.pc = "done" /\ run.cmd = "tinify-pngs" /\ run.i = 0

\* C11: a command returns 0 when nothing was changed, a positive number
\* when files were processed (also when size warnings occurred), and a
\* negative number only when its setup failed.
C11_ReturnSign ==
    run.pc = "done"
    => /\ run.ret < 0 => SetupFailed
       /\ (~SetupFailed /\ run.warnings # 0) => run.ret > 0
       /\ (~SetupFailed /\ run.changed = 0) => run.ret = 0

(***************************************************************************)
(* Properties of the dispatcher                                            *)
(***************************************************************************)
\* main has ended
MainEnded == disp.pc \in {"returned", "exit", "raised"}

\* C12: when the first token is absent or is not the name of a registered
\* command, main shows the help, returns 0 and calls no command callback.
C12_UnmatchedShowsHelp ==
    (MainEnded /\ (disp.argv = <<>> \/ disp.argv[1] \notin Registered))
    => /\ disp.pc = "returned"
       /\ disp.ret = 0
       /\ Len(disp.helps) = 1
       /\ disp.calls = <<>>

\* the first positional token of a command line, "none" when it has none
FirstPositional(argv) ==
    IF \A k \in DOMAIN argv : IsOptionString(argv[k]) THEN "none"
    ELSE argv[CHOOSE k \in DOMAIN argv :
                 /\ ~IsOptionString(argv[k])
                 /\ \A j \in 1..(k - 1) : IsOptionString(argv[j])]

\* the command line without its token k
Without(argv, k) == SubSeq(argv, 1, k - 1) \o SubSeq(argv, k + 1, Len(argv))

\* main called the callback of the command at token k, once, with all other
\* tokens in their order, and returned its value, or 0, when it returned;
\* main ended as the callback did when it did not return
Dispatched(k) ==
    /\ Len(disp.calls) = 1
    /\ disp.calls[1].name = disp.argv[k]
    /\ disp.calls[1].args = Without(disp.argv, k)
    /\ IF disp.calls[1].outcome = "done"
       THEN /\ disp.pc = "returned"
            /\ disp.ret = (IF disp.calls[1].value = 0 THEN 0
                           ELSE disp.calls[1].value)
       ELSE /\ disp.pc = disp.calls[1].outcome
            /\ disp.ret = disp.calls[1].value
    /\ disp.helps = <<>>

\* C13 as stated: when the first positional token is the name of a
\* registered command, main calls that command's callback, once, with all
\* the other tokens in their order, and returns the value the callback
\* returns, or 0.
C13_FirstPositionalDispatches ==
    (MainEnded /\ FirstPositional(disp.argv) \in Registered)
    => \E k \in DOMAIN disp.argv :
          /\ disp.argv[k] = FirstPositional(disp.argv)
          /\ \A j \in 1..(k - 1) : IsOptionString(disp.argv[j])
          /\ Dispatched(k)

\* C13, amended: when the first token is the name of a registered command,
\* or the first positional token is and no -h stands before it, main calls
\* that command's callback, once, with all the other tokens in their order,
\* and returns the value the callback returns, or 0 (a SystemExit or an
\* exception of the callback passes through main); a -h before the command
\* shows the help and exits with 0, and no callback is called.
C13_CommandDispatches ==
    (MainEnded /\ FirstPositional(disp.argv) \in Registered)
    => \E k \in DOMAIN disp.argv :
          /\ disp.argv[k] = FirstPositional(disp.argv)
          /\ \A j \in 1..(k - 1) : IsOptionString(disp.argv[j])
          /\ IF \E j \in 1..(k - 1) : disp.argv[j] = "-h"
             THEN /\ disp.pc = "exit"
                  /\ disp.ret = 0
                  /\ disp.calls = <<>>
                  /\ Len(disp.helps) = 1
             ELSE Dispatched(k)

\* "-v minify-json -f" on an a.json that is not minified: the callback of
\* minify-json got <<"-v", "-f">>, minified a.json in place and returned 1,
\* which main returned
C13_Witness ==
    /\ disp.pc = "returned"
    /\ disp.argv = <<"-v", "minify-json", "-f">>
    /\ Len(disp.calls) = 1
    /\ disp.calls[1].name = "minify-json"
    /\ disp.calls[1].args = <<"-v", "-f">>
    /\ disp.calls[1].value = 1
    /\ disp.ret = 1
    /\ data[<<N_w, N_a_json>>] = J_min

(***************************************************************************)
(* Properties of reruns and of the file pairs                              *)
(***************************************************************************)
\* the input files of the first run hold what they held when it started
InputsUnchanged ==
    \A k \in 1..Len(run.files0) :
        /\ run.files0[k][1] \in DOMAIN data
        /\ run.files0[k][1] \in DOMAIN run.data0
        /\ data[run.files0[k][1]] = run.data0[run.files0[k][1]]

\* C14: for minify-json and remove-blank-lines, after a run has completed,
\* a second run on the same command line and unchanged inputs writes no
\* file and returns 0 (a pass writes only when the output file is missing
\* or differs from the computed text).
C14_RerunIdempotent ==
    (/\ run.pc = "done"
     /\ run.round = 2
     /\ run.cmd \in {"minify-json", "remove-blank-lines"}
     /\ InputsUnchanged)
    => run.writes = 0 /\ run.ret = 0

\* the directories parse_args works in, from the file system before the call
PreDirs ==
    get_input_and_output_dir_paths(last.pre, cwd, last.input, last.output,
                                   IF last.add_force THEN last.force ELSE TRUE)

\* the relative paths parse_args discovers
Discovered ==
    get_relevant_file_paths(PreDirs.fs, cwd, last.raw_paths, last.exts,
                            Dir(PreDirs.input_dir)).paths

\* C15: after a successful parse_args the files list has one pair per
\* discovered relative path r, in discovery order, each pair being
\* (input_dir / r, output_dir / r), and the parent directory of every output
\* path exists.
C15_FilePairs ==
    Returned("parse_args")
    => /\ Len(last.files) = Len(Discovered)
       /\ \A k \in 1..Len(last.files) :
             /\ last.files[k][1] = last.input_dir \o Discovered[k]
             /\ last.files[k][2] = last.output_dir \o Discovered[k]
             /\ Parent(last.files[k][2]) \in fs.dirs

\* "-o ../o s.d": s.d/a.json is paired with /o/s.d/a.json and /o/s.d, which
\* did not exist, has been created
C15_Witness ==
    /\ Returned("parse_args")
    /\ last.input_dir = <<N_w>>
    /\ last.output_dir = <<N_o>>
    /\ <<N_o, N_s_d>> \notin last.pre.dirs
    /\ <<N_o, N_s_d>> \in fs.dirs
    /\ \E k \in 1..Len(last.files) :
          last.files[k] = << <<N_w, N_s_d, N_a_json>>, <<N_o, N_s_d, N_a_json>> >>

\* C17: without -f (on a parser with the -f option) no output path of a
\* file pair is the input path of a file pair, so that no source file can
\* be overwritten.
C17_NoSourceOverwritten ==
    (Returned("parse_args") /\ last.add_force /\ ~last.force)
    => \A j, k \in 1..Len(last.files) : last.files[j][2] # last.files[k][1]

\* C16: a filter entry is normalised by stripping leading dots and
\* lowercasing: the filter ".json" and the filter "JSON" give the list the
\* filter "json" gives.
C16_ExtNormalised ==
    (last.op = "get_relevant_file_paths"
     /\ last.exts \in {<<E_dot_json>>, <<E_JSON>>})
    => /\ last.outcome =
              get_relevant_file_paths(last.pre, cwd, last.raw_paths,
                                      <<E_json>>, last.parent).outcome
       /\ last.paths =
              get_relevant_file_paths(last.pre, cwd, last.raw_paths,
                                      <<E_json>>, last.parent).paths

\* C18: every path get_relevant_file_paths returns is a regular file, never
\* a directory.
C18_OnlyRegularFiles ==
    Returned("get_relevant_file_paths")
    => \A k \in 1..Len(last.paths) :
          /\ Scope \o last.paths[k] \in last.pre.files
          /\ Scope \o last.paths[k] \notin last.pre.dirs

====
